---- MODULE Spec2Model ----
(***************************************************************************)
(* A model of app/main.py, the file-backed inbound-carrier backend:        *)
(*   - the in-memory record store LOADS and the load filter/ranker         *)
(*     (_norm, _filter_loads, find_loads),                                 *)
(*   - the carrier eligibility evaluator (compute_verdict, find_carrier),  *)
(*   - the two append-only JSONL logs (log_offer, call_summary) and the    *)
(*     aggregation metrics() reads back from them.                         *)
(*                                                                         *)
(* Python values are tagged records: None, Str(<<chars>>), PyInt(n),       *)
(* Float(num, den), Bool(b), List(<<values>>).  A Python str is the tuple  *)
(* of its characters, so that strip(), lower(), `in`, string comparison    *)
(* and JSON escaping are computed character by character.                  *)
(*                                                                         *)
(* Requests are modelled past the require_api_key dependency (a request    *)
(* that fails it touches no state).                                        *)
(***************************************************************************)
EXTENDS Integers, Sequences, FiniteSets, TLC

VARIABLES
    LOADS,        \* main.py:74-109, the record store (a list of dicts)
    offers_log,   \* the file at OFFERS_LOG_PATH: [exists, data]
    summary_log,  \* the file at SUMMARY_LOG_PATH: [exists, data]
    workers,      \* the append requests in flight, one slot per worker thread
    completed,    \* history: the bodies of the appends that returned, per log
    req,          \* the request served last (its endpoint and inputs)
    resp          \* the response returned last

vars == <<LOADS, offers_log, summary_log, workers, completed, req, resp>>

----------------------------------------------------------------------------
(* Bounds of the model *)

\* the longest record store drawn (one more than the ranker's cut of 3)
MaxLoads == 4
\* the number of append requests (both logs together) a behaviour starts
MaxAppends == 2
\* the number of worker threads serving append requests concurrently
NumWorkers == 2

----------------------------------------------------------------------------
(* Python values *)

None == [t |-> "none"]
Str(s) == [t |-> "str", s |-> s]
PyInt(n) == [t |-> "int", n |-> n]
Bool(b) == [t |-> "bool", b |-> b]
List(l) == [t |-> "list", l |-> l]

RECURSIVE Gcd(_, _)
Gcd(a, b) == IF b = 0 THEN a ELSE Gcd(b, a % b)

\* a float holding the rational num/den exactly, in lowest terms
Float(num, den) ==
    LET g == Gcd(IF num < 0 THEN -num ELSE num, den)
    IN  [t |-> "float", num |-> num \div g, den |-> den \div g]

\* Python truthiness, as `x or y`, `if x`, `if not x` use it
Truthy(v) ==
    CASE v.t = "none"  -> FALSE
      [] v.t = "str"   -> v.s # <<>>
      [] v.t = "int"   -> v.n # 0
      [] v.t = "float" -> v.num # 0
      [] v.t = "bool"  -> v.b
      [] v.t = "list"  -> v.l # <<>>
      [] v.t = "dict"  -> v.items # <<>>

\* x or y
Or(x, y) == IF Truthy(x) THEN x ELSE y

----------------------------------------------------------------------------
(* Python str operations, on tuples of characters *)

Whitespace == {" ", "\t", "\n", "\r"}

Lower(c) ==
    CASE c = "A" -> "a" [] c = "C" -> "c" [] c = "D" -> "d" [] c = "F" -> "f"
      [] c = "G" -> "g" [] c = "H" -> "h" [] c = "I" -> "i" [] c = "L" -> "l" [] c = "N" -> "n"
      [] c = "O" -> "o" [] c = "R" -> "r" [] c = "T" -> "t" [] c = "V" -> "v"
      [] c = "X" -> "x" [] OTHER -> c

\* the characters of the model in code-point order (str comparison is by code point)
CodePoints ==
    << "\t", "\n", "\r", " ", "\"", ",", "-", ".",
       "0", "1", "2", "3", "4", "5", "6", "7", "8", "9", ":",
       "A", "C", "D", "F", "G", "H", "I", "L", "N", "O", "R", "T", "V", "X", "\\",
       "a", "c", "d", "e", "f", "g", "h", "i", "l", "n", "o", "r", "t", "v", "x" >>

Ord(c) == CHOOSE i \in 1..Len(CodePoints) : CodePoints[i] = c

RECURSIVE LStrip(_)
LStrip(s) == IF s # <<>> /\ Head(s) \in Whitespace THEN LStrip(Tail(s)) ELSE s

RECURSIVE RStrip(_)
RStrip(s) ==
    IF s # <<>> /\ s[Len(s)] \in Whitespace THEN RStrip(SubSeq(s, 1, Len(s) - 1)) ELSE s

\* s.strip()
Strip(s) == RStrip(LStrip(s))

\* s.lower()
LowerStr(s) == [i \in 1..Len(s) |-> Lower(s[i])]

\* a in b, for two str
Contains(a, b) ==
    \E i \in 0..(Len(b) - Len(a)) : SubSeq(b, i + 1, i + Len(a)) = a

\* a < b, for two str
RECURSIVE StrLess(_, _)
StrLess(a, b) ==
    IF b = <<>> THEN FALSE
    ELSE IF a = <<>> THEN TRUE
    ELSE IF Head(a) = Head(b) THEN StrLess(Tail(a), Tail(b))
    ELSE Ord(Head(a)) < Ord(Head(b))

Digits == <<"0", "1", "2", "3", "4", "5", "6", "7", "8", "9">>
DigitChars == {Digits[i] : i \in 1..10}
DigitVal(c) == (CHOOSE i \in 1..10 : Digits[i] = c) - 1

\* the decimal digits of a natural number
RECURSIVE NatChars(_)
NatChars(n) == IF n < 10 THEN <<Digits[n + 1]>> ELSE NatChars(n \div 10) \o <<Digits[(n % 10) + 1]>>

\* str(n) / repr(n) of an int
IntChars(n) == IF n < 0 THEN <<"-">> \o NatChars(-n) ELSE NatChars(n)

\* the natural number a non-empty run of digits denotes
RECURSIVE DigitsVal(_)
DigitsVal(s) == IF s = <<>> THEN 0 ELSE DigitsVal(SubSeq(s, 1, Len(s) - 1)) * 10 + DigitVal(s[Len(s)])

AllDigits(s) == s # <<>> /\ \A i \in 1..Len(s) : s[i] \in DigitChars

\* str(v), for the values a load record holds
PyStr(v) ==
    CASE v.t = "none" -> <<"N", "o", "n", "e">>
      [] v.t = "str"  -> v.s
      [] v.t = "int"  -> IntChars(v.n)

\* float(v): [ok |-> TRUE, v |-> the float] or [ok |-> FALSE] when it raises.
\* str arguments are stripped and read as an unsigned run of digits (the
\* numeric strings of the model), anything else raises ValueError; None raises
\* TypeError.
PyFloat(v) ==
    CASE v.t = "int"   -> [ok |-> TRUE, v |-> Float(v.n, 1)]
      [] v.t = "float" -> [ok |-> TRUE, v |-> v]
      [] v.t = "str"   -> IF AllDigits(Strip(v.s))
                            THEN [ok |-> TRUE, v |-> Float(DigitsVal(Strip(v.s)), 1)]
                            ELSE [ok |-> FALSE]
      [] OTHER         -> [ok |-> FALSE]

----------------------------------------------------------------------------
(* The record store and the load filter/ranker *)

\* _norm(s), s an Optional[str]
_norm(s) == LowerStr(Strip(Or(s, Str(<<>>)).s))

\* the match flag the loop body computes for record r (main.py:122-129);
\* q holds the six query parameters
Matches(r, q) ==
    LET oc == _norm(q.origin_city)
        os == _norm(q.origin_state)
        dc == _norm(q.destination_city)
        ds == _norm(q.destination_state)
        et == _norm(q.equipment_type)
        ro == _norm(r.origin)
        rd == _norm(r.destination)
    IN  /\ ~(oc # <<>> /\ ~Contains(oc, ro))
        /\ ~(os # <<>> /\ ~Contains(os, ro))
        /\ ~(dc # <<>> /\ ~Contains(dc, rd))
        /\ ~(ds # <<>> /\ ~Contains(ds, rd))
        /\ ~(et # <<>> /\ et # _norm(Str(PyStr(r.equipment_type))))
        /\ ~(Truthy(q.pickup_date)
             /\ ~Contains(q.pickup_date.s, Or(r.pickup_datetime, Str(<<>>)).s))

\* r2 = dict(r); r2["loadboard_rate"] = float(...) unless float raises
Coerced(r) ==
    LET f == PyFloat(r.loadboard_rate)
    IN  IF f.ok THEN [r EXCEPT !.loadboard_rate = f.v] ELSE r

\* what the assignment to r2["loadboard_rate"] leaves in the stored record r
\* if r2 were r itself (r2 = r instead of r2 = dict(r))
StoredAfterCopy_alias(r, r2) == r2

\* what the assignment to r2["loadboard_rate"] leaves in the stored record r:
\* r2 = dict(r) is a new dict, so r keeps its value
StoredAfterCopy(r, r2) == r

\* the sort key of main.py:138, a pair (bool, str)
SortKey(x, et) ==
    [mismatch |-> _norm(Str(PyStr(x.equipment_type))) # et,
     pickup   |-> PyStr(Or(x.pickup_datetime, Str(<<>>)))]

\* k1 < k2 for two sort keys: tuples compare element by element, False < True
KeyLess(k1, k2) ==
    IF k1.mismatch # k2.mismatch THEN k2.mismatch
    ELSE StrLess(k1.pickup, k2.pickup)

\* insert index i after every element of the sorted list whose key is not
\* greater, keeping the sort stable
RECURSIVE InsertSorted(_, _, _, _)
InsertSorted(sorted, i, store, et) ==
    IF sorted = <<>> THEN <<i>>
    ELSE IF KeyLess(SortKey(store[i], et), SortKey(store[Head(sorted)], et))
         THEN <<i>> \o sorted
         ELSE <<Head(sorted)>> \o InsertSorted(Tail(sorted), i, store, et)

\* list.sort(key=...) over a list of indices into store: a stable sort
RECURSIVE SortIdx(_, _, _)
SortIdx(idx, store, et) ==
    IF idx = <<>> THEN <<>>
    ELSE InsertSorted(SortIdx(SubSeq(idx, 1, Len(idx) - 1), store, et),
                      idx[Len(idx)], store, et)

\* out[:n] with n = 4, one more than the code keeps
Truncate_four(out) == SubSeq(out, 1, IF Len(out) < 4 THEN Len(out) ELSE 4)

\* out[:3]
Truncate(out) == SubSeq(out, 1, IF Len(out) < 3 THEN Len(out) ELSE 3)

\* a sort that ranks by the equipment flag alone and ignores the pickup string
SortOut_nopickup(idx, store, et) ==
    SelectSeq(idx, LAMBDA i : ~SortKey(store[i], et).mismatch)
        \o SelectSeq(idx, LAMBDA i : SortKey(store[i], et).mismatch)

\* out.sort(key=...) of main.py:138
SortOut(idx, store, et) == SortIdx(idx, store, et)

\* a loop whose origin and destination tests read the record's raw fields,
\* without _norm
LoopMatches_rawrecord(r, q) ==
    LET oc == _norm(q.origin_city)
        os == _norm(q.origin_state)
        dc == _norm(q.destination_city)
        ds == _norm(q.destination_state)
        et == _norm(q.equipment_type)
        ro == Or(r.origin, Str(<<>>)).s
        rd == Or(r.destination, Str(<<>>)).s
    IN  /\ ~(oc # <<>> /\ ~Contains(oc, ro))
        /\ ~(os # <<>> /\ ~Contains(os, ro))
        /\ ~(dc # <<>> /\ ~Contains(dc, rd))
        /\ ~(ds # <<>> /\ ~Contains(ds, rd))
        /\ ~(et # <<>> /\ et # _norm(Str(PyStr(r.equipment_type))))
        /\ ~(Truthy(q.pickup_date)
             /\ ~Contains(q.pickup_date.s, Or(r.pickup_datetime, Str(<<>>)).s))

\* the test `if match:` of main.py:130
LoopMatches(r, q) == Matches(r, q)

\* the indices, into store, of the records _filter_loads returns, in order
FilterIdx(store, q) ==
    LET RECURSIVE Loop(_)
        Loop(i) == IF i > Len(store) THEN <<>>
                   ELSE (IF LoopMatches(store[i], q) THEN <<i>> ELSE <<>>) \o Loop(i + 1)
    IN  Truncate(SortOut(Loop(1), store, _norm(q.equipment_type)))

\* _filter_loads(...): the returned list of copies
_filter_loads(store, q) ==
    LET idx == FilterIdx(store, q)
    IN  [k \in 1..Len(idx) |-> Coerced(store[idx[k]])]

\* LOADS after _filter_loads ran: each matching record after its copy was
\* coerced, every other record untouched
StoreAfterFilter(store, q) ==
    [i \in 1..Len(store) |->
        IF LoopMatches(store[i], q)
        THEN StoredAfterCopy(store[i], Coerced(store[i]))
        ELSE store[i]]

----------------------------------------------------------------------------
(* dicts, and JSON as json.dumps writes it and json.loads reads it *)

\* A dict is the list of its items in insertion order, each [k, v] with k a
\* str.  In the log entries a run of plain characters is one element of the
\* tuple ("call_id", "c1"); the characters JSON escapes stand alone.
Item(k, v) == [k |-> <<k>>, v |-> v]
Dict(items) == [t |-> "dict", items |-> items]

\* d.get(k): the value of the last item with key k, None when there is none
Get(d, k) ==
    LET hits == {i \in DOMAIN d.items : d.items[i].k = <<k>>}
    IN  IF hits = {} THEN None
        ELSE d.items[CHOOSE i \in hits : \A j \in hits : j <= i].v

RECURSIVE Concat(_)
Concat(ss) == IF ss = <<>> THEN <<>> ELSE Head(ss) \o Concat(Tail(ss))

\* sep.join(parts), parts a list of token lists
RECURSIVE Join(_, _)
Join(parts, sep) ==
    IF parts = <<>> THEN <<>>
    ELSE IF Len(parts) = 1 THEN parts[1]
    ELSE parts[1] \o sep \o Join(Tail(parts), sep)

\* the JSON escape of one character of a str (ensure_ascii output)
Escape(c) ==
    CASE c = "\"" -> <<"\\", "\"">>
      [] c = "\\" -> <<"\\", "\\">>
      [] c = "\n" -> <<"\\", "n">>
      [] c = "\r" -> <<"\\", "r">>
      [] c = "\t" -> <<"\\", "t">>
      [] OTHER    -> <<c>>

DumpStr(s) == <<"\"">> \o Concat([i \in 1..Len(s) |-> Escape(s[i])]) \o <<"\"">>

\* float.__repr__ for the floats of the model, which have at most one
\* decimal digit: "1450.0", "1.5", "-0.5"
FloatRepr(f) ==
    LET tenths == (f.num * 10) \div f.den
        mag == IF tenths < 0 THEN -tenths ELSE tenths
    IN  (IF tenths < 0 THEN <<"-">> ELSE <<>>)
            \o NatChars(mag \div 10) \o <<".">> \o <<Digits[(mag % 10) + 1]>>

\* json.dumps(v, separators=(",", ":")) as a list of characters
RECURSIVE Dumps(_)
Dumps(v) ==
    CASE v.t = "none"  -> <<"null">>
      [] v.t = "bool"  -> IF v.b THEN <<"true">> ELSE <<"false">>
      [] v.t = "int"   -> IntChars(v.n)
      [] v.t = "float" -> FloatRepr(v)
      [] v.t = "str"   -> DumpStr(v.s)
      [] v.t = "list"  ->
            <<"[">> \o Join([i \in 1..Len(v.l) |-> Dumps(v.l[i])], <<",">>) \o <<"]">>
      [] v.t = "dict"  ->
            <<"{">>
              \o Join([i \in 1..Len(v.items) |->
                          DumpStr(v.items[i].k) \o <<":">> \o Dumps(v.items[i].v)],
                      <<",">>)
              \o <<"}">>

\* json.loads, a recursive-descent parser over the characters.  Every parser
\* returns [ok, v, rest]: whether it read a value, the value, the characters
\* left.
Fail == [ok |-> FALSE]
Parsed(v, rest) == [ok |-> TRUE, v |-> v, rest |-> rest]

RECURSIVE SkipWs(_)
SkipWs(s) == IF s # <<>> /\ Head(s) \in Whitespace THEN SkipWs(Tail(s)) ELSE s

\* the longest prefix of s made of characters of set C
RECURSIVE Run(_, _)
Run(s, C) == IF s # <<>> /\ Head(s) \in C THEN <<Head(s)>> \o Run(Tail(s), C) ELSE <<>>

RECURSIVE Pow10(_)
Pow10(k) == IF k = 0 THEN 1 ELSE 10 * Pow10(k - 1)

\* a JSON number: -? int (. digits)? ; an int without fraction, else a float
ParseNumber(s) ==
    LET neg  == s # <<>> /\ Head(s) = "-"
        s1   == IF neg THEN Tail(s) ELSE s
        ip   == Run(s1, DigitChars)
        s2   == SubSeq(s1, Len(ip) + 1, Len(s1))
        frac == IF s2 # <<>> /\ Head(s2) = "." THEN Run(Tail(s2), DigitChars) ELSE <<>>
        isf  == s2 # <<>> /\ Head(s2) = "."
        s3   == IF isf THEN SubSeq(s2, Len(frac) + 2, Len(s2)) ELSE s2
        sign == IF neg THEN -1 ELSE 1
    IN  IF ip = <<>> \/ (Len(ip) > 1 /\ Head(ip) = "0") \/ (isf /\ frac = <<>>)
        THEN Fail
        ELSE IF isf
             THEN Parsed(Float(sign * (DigitsVal(ip) * Pow10(Len(frac)) + DigitsVal(frac)),
                               Pow10(Len(frac))), s3)
             ELSE Parsed(PyInt(sign * DigitsVal(ip)), s3)

\* the characters of a JSON string after its opening quote
RECURSIVE ParseChars(_, _)
ParseChars(s, acc) ==
    IF s = <<>> THEN Fail
    ELSE IF Head(s) = "\"" THEN Parsed(Str(acc), Tail(s))
    ELSE IF Head(s) \in {"\n", "\r", "\t"} THEN Fail
    ELSE IF Head(s) = "\\"
         THEN IF Len(s) < 2 THEN Fail
              ELSE LET e == s[2]
                       c == CASE e = "\"" -> "\""
                              [] e = "\\" -> "\\"
                              [] e = "n"  -> "\n"
                              [] e = "r"  -> "\r"
                              [] e = "t"  -> "\t"
                              [] OTHER    -> ""
                   IN  IF c = "" THEN Fail
                       ELSE ParseChars(SubSeq(s, 3, Len(s)), Append(acc, c))
    ELSE ParseChars(Tail(s), Append(acc, Head(s)))

RECURSIVE ParseValue(_)
RECURSIVE ParseElements(_, _)
RECURSIVE ParseMembers(_, _)

\* the elements of an array after "[" (or after a ","), up to "]"
ParseElements(s, acc) ==
    LET e == ParseValue(s)
    IN  IF ~e.ok THEN Fail
        ELSE LET r == SkipWs(e.rest)
             IN  IF r = <<>> THEN Fail
                 ELSE IF Head(r) = "]" THEN Parsed(List(Append(acc, e.v)), Tail(r))
                 ELSE IF Head(r) = "," THEN ParseElements(SkipWs(Tail(r)), Append(acc, e.v))
                 ELSE Fail

\* the members of an object after "{" (or after a ","), up to "}"
ParseMembers(s, acc) ==
    IF s = <<>> \/ Head(s) # "\"" THEN Fail
    ELSE LET k == ParseChars(Tail(s), <<>>)
         IN  IF ~k.ok THEN Fail
             ELSE LET r1 == SkipWs(k.rest)
                  IN  IF r1 = <<>> \/ Head(r1) # ":" THEN Fail
                      ELSE LET v == ParseValue(SkipWs(Tail(r1)))
                           IN  IF ~v.ok THEN Fail
                               ELSE LET r2  == SkipWs(v.rest)
                                        got == Append(acc, [k |-> k.v.s, v |-> v.v])
                                    IN  IF r2 = <<>> THEN Fail
                                        ELSE IF Head(r2) = "}" THEN Parsed(Dict(got), Tail(r2))
                                        ELSE IF Head(r2) = ","
                                             THEN ParseMembers(SkipWs(Tail(r2)), got)
                                        ELSE Fail

ParseValue(s) ==
    IF s = <<>> THEN Fail
    ELSE LET c == Head(s)
         IN  CASE c = "null"  -> Parsed(None, Tail(s))
               [] c = "true"  -> Parsed(Bool(TRUE), Tail(s))
               [] c = "false" -> Parsed(Bool(FALSE), Tail(s))
               [] c = "\""    -> ParseChars(Tail(s), <<>>)
               [] c = "["     ->
                     LET r == SkipWs(Tail(s))
                     IN  IF r # <<>> /\ Head(r) = "]" THEN Parsed(List(<<>>), Tail(r))
                         ELSE ParseElements(r, <<>>)
               [] c = "{"     ->
                     LET r == SkipWs(Tail(s))
                     IN  IF r # <<>> /\ Head(r) = "}" THEN Parsed(Dict(<<>>), Tail(r))
                         ELSE ParseMembers(r, <<>>)
               [] c = "-" \/ c \in DigitChars -> ParseNumber(s)
               [] OTHER       -> Fail

\* json.loads(x): [ok, v]; it raises (ok = FALSE) unless x is one value with
\* nothing but whitespace around it
Loads(x) ==
    LET r == ParseValue(SkipWs(x))
    IN  IF r.ok /\ SkipWs(r.rest) = <<>> THEN [ok |-> TRUE, v |-> r.v] ELSE [ok |-> FALSE]

----------------------------------------------------------------------------
(* The carrier eligibility evaluator *)

IsDict(v) == v.t = "dict"

\* the first item of list l that is a dict holding a dict under "carrier"
FirstCarrierIn(l) ==
    LET hits == {i \in DOMAIN l : IsDict(l[i]) /\ IsDict(Get(l[i], "carrier"))}
    IN  IF hits = {} THEN None
        ELSE Get(l[CHOOSE i \in hits : \A j \in hits : i <= j], "carrier")

\* the first carrier found in the list-valued fields of a dict, in item order
RECURSIVE FirstCarrierInValues(_)
FirstCarrierInValues(items) ==
    IF items = <<>> THEN None
    ELSE LET v == Head(items).v
             c == IF v.t = "list" THEN FirstCarrierIn(v.l) ELSE None
         IN  IF c # None THEN c ELSE FirstCarrierInValues(Tail(items))

\* choose_carrier(payload) (main.py:142-156)
choose_carrier(payload) ==
    IF IsDict(payload)
    THEN IF IsDict(Get(payload, "carrier")) THEN Get(payload, "carrier")
         ELSE FirstCarrierInValues(payload.items)
    ELSE IF payload.t = "list" THEN FirstCarrierIn(payload.l)
    ELSE None

ActiveReason == <<"Active: allowed to operate and not out of service">>

\* a verdict whose second test is an elif: it is skipped when the first fires
compute_verdict_elif(carrier) ==
    LET allow == Get(carrier, "allowToOperate")
        oos   == Get(carrier, "outOfService")
        oos_d == Get(carrier, "outOfServiceDate")
        r1 == IF allow = Str(<<"N">>) THEN <<<<"allowToOperate=N">>>> ELSE <<>>
        r2 == IF allow # Str(<<"N">>) /\ oos = Str(<<"Y">>)
              THEN << <<"outOfService=Y">>
                        \o (IF Truthy(oos_d) THEN <<" since ">> \o oos_d.s ELSE <<>>) >>
              ELSE <<>>
        reasons == r1 \o r2
        ok == reasons = <<>>
    IN  [ok |-> ok,
         reason |-> IF ok THEN ActiveReason
                    ELSE Join(reasons, <<"; ">>)]

\* compute_verdict(carrier) (main.py:158-167): [ok, reason]
compute_verdict(carrier) ==
    LET allow == Get(carrier, "allowToOperate")
        oos   == Get(carrier, "outOfService")
        oos_d == Get(carrier, "outOfServiceDate")
        r1 == IF allow = Str(<<"N">>) THEN <<<<"allowToOperate=N">>>> ELSE <<>>
        r2 == IF oos = Str(<<"Y">>)
              THEN << <<"outOfService=Y">>
                        \o (IF Truthy(oos_d) THEN <<" since ">> \o oos_d.s ELSE <<>>) >>
              ELSE <<>>
        reasons == r1 \o r2
        ok == allow # Str(<<"N">>) /\ oos # Str(<<"Y">>)
    IN  [ok |-> ok,
         reason |-> IF ok THEN ActiveReason
                    ELSE IF Join(reasons, <<"; ">>) # <<>> THEN Join(reasons, <<"; ">>)
                    ELSE <<"Not eligible">>]

\* MC_RE.match(mc_digits): ^\d{4,7}$ on the stripped parameter
McValid(mc_digits) ==
    /\ Len(mc_digits) \in 4..7
    /\ \A i \in DOMAIN mc_digits : mc_digits[i] \in DigitChars

HttpError(status) == [kind |-> "error", status |-> status]

\* find_carrier (main.py:171-197) with FMCSA_WEBKEY configured: mc the query
\* parameter, upstream the status and JSON body FMCSA answers with
FindCarrierResponse(mc, upstream) ==
    LET mc_digits == Strip(mc)
    IN  IF ~McValid(mc_digits) THEN HttpError(400)
        ELSE IF upstream.status = 401 THEN HttpError(502)
        ELSE IF upstream.status = 404 THEN HttpError(404)
        ELSE IF upstream.status >= 500 THEN HttpError(502)
        ELSE LET carrier == choose_carrier(upstream.payload)
             IN  IF ~Truthy(carrier) THEN HttpError(404)
                 ELSE LET v == compute_verdict(carrier)
                      IN  [kind |-> "verdict", status |-> 200,
                           eligible |-> v.ok, reason |-> Str(v.reason),
                           mc_number |-> Str(PyStr(Or(Get(carrier, "mcNumber"), Str(mc_digits)))),
                           dot_number |-> Str(PyStr(Or(Get(carrier, "dotNumber"), Str(<<>>)))),
                           legal_name |-> Get(carrier, "legalName"),
                           dba_name |-> Get(carrier, "dbaName"),
                           out_of_service_date |-> Get(carrier, "outOfServiceDate")]

\* a key left out of a carrier record
Absent == [t |-> "absent"]

\* a carrier record of the FMCSA payload: the three fields the verdict
\* reads (each possibly left out) and the legal name
Carrier(allow, oos, oos_d) ==
    Dict(SelectSeq(<< Item("legalName", Str(<<"ACME">>)), Item("allowToOperate", allow),
                      Item("outOfService", oos), Item("outOfServiceDate", oos_d) >>,
                   LAMBDA it : it.v # Absent))

CarrierSet ==
    { Carrier(allow, oos, oos_d) :
        allow \in {Absent, None, Str(<<"N">>), Str(<<"Y">>), Str(<<"n">>)},
        oos   \in {Absent, Str(<<"Y">>), Str(<<"N">>)},
        oos_d \in {Absent, None, Str(<<>>), Str(<<"2024-01-01">>)} }

\* the shapes choose_carrier accepts, around carrier c
Payloads(c) ==
    { Dict(<<Item("carrier", c)>>),
      Dict(<<Item("retrievalDate", Str(<<"now">>)),
             Item("content", List(<<Dict(<<Item("other", None)>>),
                                    Dict(<<Item("carrier", c)>>)>>))>>),
      List(<<Dict(<<Item("carrier", c)>>)>>) }

GoodMc == <<" ", "1", "2", "3", "4", "\n">>

\* the carrier lookups drawn: a valid MC number against every answer of
\* FMCSA, and ill-formed MC numbers
CarrierRequests ==
    {[mc |-> GoodMc, upstream |-> [status |-> 200, payload |-> p]] :
        p \in UNION {Payloads(c) : c \in CarrierSet}}
    \cup {[mc |-> GoodMc, upstream |-> [status |-> 200, payload |-> p]] :
        p \in {Dict(<<Item("content", Str(<<"none">>))>>), List(<<>>),
               Dict(<<Item("carrier", Dict(<<>>))>>)}}
    \cup {[mc |-> GoodMc, upstream |-> [status |-> st, payload |-> None]] :
        st \in {401, 404, 500, 503}}
    \cup {[mc |-> m, upstream |-> [status |-> 200, payload |-> None]] :
        m \in {<<"1", "2", "3">>, <<"1", "2", "3", "x">>,
               <<"1", "2", "3", "4", "5", "6", "7", "8">>}}

----------------------------------------------------------------------------
(* The load records and query parameters the model draws from *)

\* a load record: the five fields _filter_loads reads (the others are copied
\* through untouched); a missing key reads as None through r.get
Load(o, d, e, p, rate) ==
    [origin |-> o, destination |-> d, equipment_type |-> e,
     pickup_datetime |-> p, loadboard_rate |-> rate]

\* L-1001 of the fallback data, abbreviated: "Chi,IL" -> "Dal,TX", Dry Van
\* ("Van"), pickup "8T08", rate the int 1450
RecA ==
    Load(Str(<<"C", "h", "i", ",", "I", "L">>), Str(<<"D", "a", "l", ",", "T", "X">>),
         Str(<<"V", "a", "n">>), Str(<<"8", "T", "0", "8">>), PyInt(1450))

\* L-1002 of the fallback data, abbreviated: "Atl,GA" -> "Orl,FL", Reefer
\* ("Ref"), pickup "8T07", rate the int 900
RecB ==
    Load(Str(<<"A", "t", "l", ",", "G", "A">>), Str(<<"O", "r", "l", ",", "F", "L">>),
         Str(<<"R", "e", "f">>), Str(<<"8", "T", "0", "7">>), PyInt(900))

\* a CSV-style row: padded and upper-cased equipment "VAN ", the pickup of
\* RecA, a numeric string as rate
RecC ==
    Load(Str(<<" ", "C", "h", "i", ",", "I", "L">>), Str(<<"D", "a", "l", ",", "T", "X", " ">>),
         Str(<<"V", "A", "N", " ">>), Str(<<"8", "T", "0", "8">>), Str(<<"9", "0">>))

\* a sparse row: blank equipment cell, a later pickup, a rate that is no number
RecD ==
    Load(Str(<<"C", "h", "i", ",", "I", "L">>), Str(<<"O", "r", "l", ",", "F", "L">>),
         Str(<<>>), Str(<<"9", "T", "0", "7">>), Str(<<"x">>))

\* a row without pickup and without rate
RecE ==
    Load(Str(<<"A", "t", "l", ",", "G", "A">>), Str(<<"D", "a", "l", ",", "T", "X">>),
         Str(<<"R", "e", "f">>), None, None)

RecordSet == {RecA, RecC, RecD, RecE}

\* the fallback LOADS of main.py:78-109
DemoLoads == <<RecA, RecB>>

\* every list of at most n records
StoresUpTo(n) == UNION {[1..k -> RecordSet] : k \in 0..n}

Query(oc, os, dc, ds, pd, et) ==
    [origin_city |-> oc, origin_state |-> os, destination_city |-> dc,
     destination_state |-> ds, pickup_date |-> pd, equipment_type |-> et]

\* the query parameters drawn: absent, a matching value in another case or
\* padded, a blank one; of an origin or destination, the city alone, the
\* state alone, or both
QuerySet ==
    { Query(o[1], o[2], d[1], d[2], pd, et) :
        o \in { <<None, None>>, <<Str(<<"c", "H", "i">>), None>>,
                <<Str(<<"c", "H", "i">>), Str(<<"i", "l", " ">>)>> },
        d \in { <<None, None>>, <<None, Str(<<"t", "x">>)>>,
                <<Str(<<"D", "A", "L">>), Str(<<"t", "x">>)>> },
        pd \in {None, Str(<<"T", "0", "8">>)},
        et \in {None, Str(<<" ", "v", "a", "n">>), Str(<<" ">>)} }

----------------------------------------------------------------------------
(* The two logs: entries, appends, and the aggregation *)

\* body.dict() of an OfferLog (main.py:41-48), fields in declaration order
OfferLog(call_id, load_id, mc_number, carrier_offer, round, broker_offer, accepted) ==
    Dict(<< Item("call_id", call_id), Item("load_id", load_id),
            Item("mc_number", mc_number), Item("carrier_offer", carrier_offer),
            Item("round", round), Item("broker_offer", broker_offer),
            Item("accepted", accepted) >>)

\* body.dict() of a CallSummary (main.py:50-58), fields in declaration order
CallSummary(call_id, carrier_mc, load_id, final_price, outcome, sentiment, offer_history, transcript_url) ==
    Dict(<< Item("call_id", call_id), Item("carrier_mc", carrier_mc),
            Item("load_id", load_id), Item("final_price", final_price),
            Item("outcome", outcome), Item("sentiment", sentiment),
            Item("offer_history", offer_history),
            Item("transcript_url", transcript_url) >>)

\* the offer bodies drawn: two calls and an empty call id; optional fields
\* set and unset; a str holding the characters JSON escapes
OfferSet ==
    { OfferLog(Str(<<"c1">>), Str(<<"L1">>), Str(<<"12">>), Float(1450, 1), PyInt(1),
               None, None),
      OfferLog(Str(<<"c2">>), Str(<<"L", "\n", "\"", "\\", "n">>), Str(<<>>), Float(3, 2),
               PyInt(-2), Float(1400, 1), Bool(TRUE)),
      OfferLog(Str(<<>>), Str(<<"L1">>), Str(<<"12">>), Float(0, 1), PyInt(0),
               Float(-1, 2), Bool(FALSE)) }

\* the summary bodies drawn: every optional field set, every one unset, and
\* empty values
SummarySet ==
    { CallSummary(Str(<<"c1">>), Str(<<"12">>), Str(<<"L1">>), Float(1450, 1),
                  Str(<<"Accepted">>), Str(<<"Positive">>),
                  List(<<Float(1400, 1), Float(2901, 2)>>), Str(<<"u", "\\", "\"">>)),
      CallSummary(Str(<<"c2">>), None, None, None, None, None, None, None),
      CallSummary(Str(<<"c1">>), Str(<<>>), None, Float(0, 1),
                  Str(<<"Rejected">>), Str(<<>>), List(<<>>), None) }

\* a line that leaves out the fields that are None (body.dict(exclude_none=True))
LogLine_excludenone(body) ==
    Dumps(Dict(SelectSeq(body.items, LAMBDA it : it.v # None))) \o <<"\n">>

\* json.dumps(body.dict(), separators=(",", ":")) + "\n"
LogLine(body) == Dumps(body) \o <<"\n">>

\* the offset at which a write lands on a file opened without O_APPEND: the
\* position the file had when it was opened
WriteOffset_atopen(data, openpos) == openpos

\* the offset at which a write lands on a file opened with mode "a"
\* (O_APPEND): the end of the file at the time of the write
WriteOffset(data, openpos) == Len(data)

\* the file's content after one write of chunk at offset off
WriteAt(data, off, chunk) ==
    SubSeq(data, 1, off) \o chunk \o SubSeq(data, off + Len(chunk) + 1, Len(data))

\* the lines of a text file, each with its line end, as `for x in f` yields them
RECURSIVE SplitLines(_)
SplitLines(data) ==
    IF data = <<>> THEN <<>>
    ELSE LET ends == {i \in DOMAIN data : data[i] = "\n"}
         IN  IF ends = {} THEN <<data>>
             ELSE LET e == CHOOSE i \in ends : \A j \in ends : i <= j
                  IN  <<SubSeq(data, 1, e)>> \o SplitLines(SubSeq(data, e + 1, Len(data)))

\* how the read of one log in metrics() ends (main.py:238-247): "missing"
\* (open raises FileNotFoundError), "io" (open or read raises another
\* OSError, the fault the environment injects), "parse" (json.loads raises
\* on a line), or "ok"
ReadOutcome(file, fault) ==
    IF ~file.exists THEN "missing"
    ELSE IF fault = "io" THEN "io"
    ELSE LET lines == SelectSeq(SplitLines(file.data), LAMBDA x : Strip(x) # <<>>)
         IN  IF \E i \in DOMAIN lines : ~Loads(lines[i]).ok THEN "parse" ELSE "ok"

\* the list metrics() holds after its try block: the parsed lines, or the
\* initial [] when anything in the block raised (except Exception: pass)
ReadLog(file, fault) ==
    IF ReadOutcome(file, fault) # "ok" THEN <<>>
    ELSE LET lines == SelectSeq(SplitLines(file.data), LAMBDA x : Strip(x) # <<>>)
         IN  [i \in DOMAIN lines |-> Loads(lines[i]).v]

Range(f) == {f[i] : i \in DOMAIN f}

RECURSIVE Sum(_)
Sum(ns) == IF ns = <<>> THEN 0 ELSE Head(ns) + Sum(Tail(ns))

\* the distinct elements of a list in order of first occurrence
RECURSIVE Distinct(_)
Distinct(l) ==
    IF l = <<>> THEN <<>>
    ELSE LET init == Distinct(SubSeq(l, 1, Len(l) - 1))
         IN  IF l[Len(l)] \in Range(init) THEN init ELSE Append(init, l[Len(l)])

\* a grouping that skips no offer: every call_id, empty ones too, is a call
GroupedCalls_all(offers) == [i \in DOMAIN offers |-> Get(offers[i], "call_id")]

\* the call ids the loop of main.py:251-254 files an offer under: entries
\* whose call_id is falsy are skipped
GroupedCalls(offers) ==
    LET cids == [i \in DOMAIN offers |-> Get(offers[i], "call_id")]
    IN  SelectSeq(cids, Truthy)

\* rounds = [len(v) for v in by_call.values()]
Rounds(offers) ==
    LET g    == GroupedCalls(offers)
        keys == Distinct(g)
    IN  [i \in DOMAIN keys |-> Cardinality({n \in DOMAIN g : g[n] = keys[i]})]

\* (sum(rounds)/len(rounds)) if rounds else 0.0
AvgRounds(rounds) == IF rounds # <<>> THEN Float(Sum(rounds), Len(rounds)) ELSE Float(0, 1)

\* Counter(values): the count of each value that occurs
Counter(values) ==
    [k \in Range(values) |-> Cardinality({i \in DOMAIN values : values[i] = k})]

\* c.get(k, 0)
CounterGet(c, k) == IF k \in DOMAIN c THEN c[k] ELSE 0

\* a default that files summaries without outcome under "Unknown"
OutcomeOf_unknown(s) == Or(Get(s, "outcome"), Str(<<"Unknown">>))

\* s.get("outcome") or "Other"
OutcomeOf(s) == Or(Get(s, "outcome"), Str(<<"Other">>))

\* s.get("sentiment") or "Neutral"
SentimentOf(s) == Or(Get(s, "sentiment"), Str(<<"Neutral">>))

\* the response of metrics() from the two lists read (main.py:249-271); an
\* entry that is no dict makes .get raise outside any try: a 500
MetricsBody(offers, summaries) ==
    IF \E i \in DOMAIN offers : offers[i].t # "dict" THEN [kind |-> "error", status |-> 500]
    ELSE IF \E i \in DOMAIN summaries : summaries[i].t # "dict"
         THEN [kind |-> "error", status |-> 500]
    ELSE LET rounds     == Rounds(offers)
             outcomes   == Counter([i \in DOMAIN summaries |-> OutcomeOf(summaries[i])])
             sentiments == Counter([i \in DOMAIN summaries |-> SentimentOf(summaries[i])])
         IN  [kind |-> "metrics", status |-> 200,
              totals |->
                 [calls |-> Cardinality({Get(summaries[i], "call_id") : i \in DOMAIN summaries}),
                  offers_logged |-> Len(offers),
                  avg_rounds |-> AvgRounds(rounds),
                  accepted |-> CounterGet(outcomes, Str(<<"Accepted">>)),
                  rejected |-> CounterGet(outcomes, Str(<<"Rejected">>)),
                  not_eligible |-> CounterGet(outcomes, Str(<<"Not Eligible">>))],
              outcomes |-> outcomes,
              sentiments |-> sentiments]

\* a handler that answers 500 when a log exists and its read fails
MetricsResponse_strict(offers_file, summary_file, fo, fs) ==
    IF ReadOutcome(offers_file, fo) \in {"io", "parse"}
       \/ ReadOutcome(summary_file, fs) \in {"io", "parse"}
    THEN [kind |-> "error", status |-> 500]
    ELSE MetricsBody(ReadLog(offers_file, fo), ReadLog(summary_file, fs))

\* metrics() (main.py:236-271) on the two files, fo and fs the faults the
\* environment injects into the two reads
MetricsResponse(offers_file, summary_file, fo, fs) ==
    MetricsBody(ReadLog(offers_file, fo), ReadLog(summary_file, fs))

----------------------------------------------------------------------------
(* The state machine *)

NoFile == [exists |-> FALSE, data |-> <<>>]
Workers == 1..NumWorkers
Idle == [pc |-> "idle"]

InitRest ==
    /\ offers_log = NoFile
    /\ summary_log = NoFile
    /\ workers = [w \in Workers |-> Idle]
    /\ completed = [offers |-> <<>>, summaries |-> <<>>]
    /\ req = [op |-> "none"]
    /\ resp = [kind |-> "none"]

\* GET /api/v1/loads (main.py:200-210), for a query drawn from Q
find_loads(Q) ==
    \E q \in Q :
        LET rows == _filter_loads(LOADS, q)
        IN  /\ LOADS' = StoreAfterFilter(LOADS, q)
            /\ req' = [op |-> "find_loads", q |-> q]
            /\ resp' = [kind |-> "loads", items |-> rows, count |-> Len(rows)]
            /\ UNCHANGED <<offers_log, summary_log, workers, completed>>

\* the appends started: those that returned and those in flight
Started ==
    Len(completed.offers) + Len(completed.summaries)
        + Cardinality({w \in Workers : workers[w].pc # "idle"})

\* log_offer (main.py:216-218): the request arrives at an idle worker, which
\* creates the directory and opens the log in mode "a" (creating the file)
log_offer_open(w) ==
    \E body \in OfferSet :
        /\ workers[w].pc = "idle"
        /\ Started < MaxAppends
        /\ offers_log' = [offers_log EXCEPT !.exists = TRUE]
        /\ workers' = [workers EXCEPT ![w] =
                          [pc |-> "opened", log |-> "offers", body |-> body,
                           openpos |-> Len(offers_log.data)]]
        /\ UNCHANGED <<LOADS, summary_log, completed, req, resp>>

\* log_offer (main.py:219-220): f.write buffers the line, leaving the with
\* block closes the file and flushes the buffer in one write; return ok
log_offer_write(w) ==
    /\ workers[w].pc = "opened"
    /\ workers[w].log = "offers"
    /\ offers_log' =
          [offers_log EXCEPT !.data =
              WriteAt(@, WriteOffset(@, workers[w].openpos), LogLine(workers[w].body))]
    /\ workers' = [workers EXCEPT ![w] = Idle]
    /\ completed' = [completed EXCEPT !.offers = Append(@, workers[w].body)]
    /\ req' = [op |-> "log_offer"]
    /\ resp' = [kind |-> "ok"]
    /\ UNCHANGED <<LOADS, summary_log>>

\* call_summary (main.py:226-228): as log_offer_open, on the summary log
call_summary_open(w) ==
    \E body \in SummarySet :
        /\ workers[w].pc = "idle"
        /\ Started < MaxAppends
        /\ summary_log' = [summary_log EXCEPT !.exists = TRUE]
        /\ workers' = [workers EXCEPT ![w] =
                          [pc |-> "opened", log |-> "summaries", body |-> body,
                           openpos |-> Len(summary_log.data)]]
        /\ UNCHANGED <<LOADS, offers_log, completed, req, resp>>

\* call_summary (main.py:229-230): as log_offer_write, on the summary log
call_summary_write(w) ==
    /\ workers[w].pc = "opened"
    /\ workers[w].log = "summaries"
    /\ summary_log' =
          [summary_log EXCEPT !.data =
              WriteAt(@, WriteOffset(@, workers[w].openpos), LogLine(workers[w].body))]
    /\ workers' = [workers EXCEPT ![w] = Idle]
    /\ completed' = [completed EXCEPT !.summaries = Append(@, workers[w].body)]
    /\ req' = [op |-> "call_summary"]
    /\ resp' = [kind |-> "ok"]
    /\ UNCHANGED <<LOADS, offers_log>>

Faults == {"none", "io"}

\* GET /metrics (main.py:235-271) when the two reads meet the faults fo, fs
MetricsStep(fo, fs) ==
    /\ req' = [op |-> "metrics", fault_offers |-> fo, fault_summaries |-> fs]
    /\ resp' = MetricsResponse(offers_log, summary_log, fo, fs)
    /\ UNCHANGED <<LOADS, offers_log, summary_log, workers, completed>>

\* GET /metrics; each of the two reads may meet an I/O fault
metrics == \E fo \in Faults, fs \in Faults : MetricsStep(fo, fs)

\* GET /api/v1/carriers/find (main.py:170-197), for a lookup drawn from R
find_carrier(R) ==
    \E r \in R :
        /\ req' = [op |-> "find_carrier", mc |-> r.mc, upstream |-> r.upstream]
        /\ resp' = FindCarrierResponse(r.mc, r.upstream)
        /\ UNCHANGED <<LOADS, offers_log, summary_log, workers, completed>>

\* the carrier lookups served in Spec: an out-of-service carrier, an unknown MC
DemoCarrierRequests ==
    { [mc |-> GoodMc,
       upstream |-> [status |-> 200,
                     payload |-> Dict(<<Item("carrier",
                                    Carrier(Str(<<"N">>), Str(<<"Y">>), Str(<<"2024-01-01">>)))>>)]],
      [mc |-> GoodMc, upstream |-> [status |-> 404, payload |-> None]] }

\* the queries served in Spec: no criterion, the
\* equipment "Dry Van", an origin that matches nothing stored
DemoQueries ==
    { Query(None, None, None, None, None, None),
      Query(None, None, None, None, None, Str(<<" ", "v", "a", "n">>)),
      Query(Str(<<"D", "A", "L">>), None, None, None, Str(<<"T", "0", "8">>), None) }

\* the rows of a loads file: the two fallback rows and two CSV-style rows
FileLoads == <<RecA, RecB, RecC, RecD>>

\* The service started on that loads file, with no log file yet, serving any
\* sequence of requests, up to NumWorkers appends at a time.
Init == LOADS = FileLoads /\ InitRest
Next ==
    \/ find_loads(DemoQueries)
    \/ find_carrier(DemoCarrierRequests)
    \/ \E w \in Workers : log_offer_open(w)
    \/ \E w \in Workers : log_offer_write(w)
    \/ \E w \in Workers : call_summary_open(w)
    \/ \E w \in Workers : call_summary_write(w)
    \/ metrics
Spec == Init /\ [][Next]_vars

\* the request received has not been answered yet
Unserved == resp.kind = "none"

\* The load search as a function of the store and the query: every record
\* store of at most MaxLoads records, every query of QuerySet received (req),
\* and the handler serving the query received.
InitLoads ==
    /\ LOADS \in StoresUpTo(MaxLoads)
    /\ offers_log = NoFile
    /\ summary_log = NoFile
    /\ workers = [w \in Workers |-> Idle]
    /\ completed = [offers |-> <<>>, summaries |-> <<>>]
    /\ req \in {[op |-> "find_loads", q |-> q] : q \in QuerySet}
    /\ resp = [kind |-> "none"]
NextLoads == Unserved /\ find_loads({req.q})
SpecLoads == InitLoads /\ [][NextLoads]_vars

\* The carrier lookup as a function of the request and of FMCSA's answer:
\* every lookup of CarrierRequests received (req), and the handler serving it.
InitCarrier ==
    /\ LOADS = DemoLoads
    /\ offers_log = NoFile
    /\ summary_log = NoFile
    /\ workers = [w \in Workers |-> Idle]
    /\ completed = [offers |-> <<>>, summaries |-> <<>>]
    /\ req \in {[op |-> "find_carrier", mc |-> r.mc, upstream |-> r.upstream] :
                   r \in CarrierRequests}
    /\ resp = [kind |-> "none"]
NextCarrier == Unserved /\ find_carrier({[mc |-> req.mc, upstream |-> req.upstream]})
SpecCarrier == InitCarrier /\ [][NextCarrier]_vars

\* a write cut short (the process killed or the disk full during f.write,
\* main.py:219): the first half of the line, without its line end
Torn(line) == SubSeq(line, 1, Len(line) \div 2)

\* what a log file written by the handlers can hold when metrics() opens it:
\* nothing, one or two whole lines, or a torn line alone or after a whole one
LogContents(bodies) ==
    {<<>>}
    \cup {LogLine(a) : a \in bodies}
    \cup {LogLine(a) \o LogLine(b) : a \in bodies, b \in bodies}
    \cup {Torn(LogLine(a)) : a \in bodies}
    \cup {LogLine(a) \o Torn(LogLine(b)) : a \in bodies, b \in bodies}

\* the log files metrics() may find: none, or one with such contents
LogFiles(bodies) ==
    {NoFile} \cup {[exists |-> TRUE, data |-> d] : d \in LogContents(bodies)}

\* The metrics read as a function of the two log files and of the faults of
\* the two reads: every pair of files of LogFiles, every pair of faults
\* received (req), and the handler serving the request.
InitMetrics ==
    /\ LOADS = DemoLoads
    /\ offers_log \in LogFiles(OfferSet)
    /\ summary_log \in LogFiles(SummarySet)
    /\ workers = [w \in Workers |-> Idle]
    /\ completed = [offers |-> <<>>, summaries |-> <<>>]
    /\ req \in {[op |-> "metrics", fault_offers |-> fo, fault_summaries |-> fs] :
                   fo \in Faults, fs \in Faults}
    /\ resp = [kind |-> "none"]
NextMetrics == Unserved /\ MetricsStep(req.fault_offers, req.fault_summaries)
SpecMetrics == InitMetrics /\ [][NextMetrics]_vars

----------------------------------------------------------------------------
(* Claims about the load filter/ranker, checked under SpecLoads *)

\* a load search has been served
LoadsServed == req.op = "find_loads" /\ resp.kind = "loads"

\* x is a copy of the stored record r: every field but the rate is r's, and
\* the rate is r's or the number it reads as
IsCopyOf(x, r) ==
    /\ [x EXCEPT !.loadboard_rate = None] = [r EXCEPT !.loadboard_rate = None]
    /\ \/ x.loadboard_rate = r.loadboard_rate
       \/ x.loadboard_rate.t = "float"

\* the trimmed, lower-cased text of an optional string
Normalized(v) == IF v = None THEN <<>> ELSE LowerStr(Strip(v.s))

\* the equipment type of a record as text, trimmed and lower-cased
NormalizedEquipment(r) ==
    IF r.equipment_type = None THEN <<"n", "o", "n", "e">>
    ELSE LowerStr(Strip(r.equipment_type.s))

\* the pickup timestamp of a record as a string ("" when it has none)
PickupString(r) == IF r.pickup_datetime = None THEN <<>> ELSE r.pickup_datetime.s

\* a criterion is supplied: present, and not blank after trimming
Supplied(c) == c # None /\ Strip(c.s) # <<>>

\* record r matches every supplied criterion of q, by the rules of the claim
CriteriaMatch(r, q) ==
    /\ Supplied(q.origin_city) =>
          Contains(Normalized(q.origin_city), Normalized(r.origin))
    /\ Supplied(q.origin_state) =>
          Contains(Normalized(q.origin_state), Normalized(r.origin))
    /\ Supplied(q.destination_city) =>
          Contains(Normalized(q.destination_city), Normalized(r.destination))
    /\ Supplied(q.destination_state) =>
          Contains(Normalized(q.destination_state), Normalized(r.destination))
    /\ Supplied(q.equipment_type) =>
          Normalized(q.equipment_type) = NormalizedEquipment(r)
    /\ (q.pickup_date # None /\ q.pickup_date.s # <<>>) =>
          Contains(q.pickup_date.s, PickupString(r))

MatchingRecords == {i \in DOMAIN LOADS : CriteriaMatch(LOADS[i], req.q)}

Included(r) == \E k \in DOMAIN resp.items : IsCopyOf(resp.items[k], r)

Min(a, b) == IF a < b THEN a ELSE b

\* C1 (as stated): the result of _filter_loads includes a copy of a stored
\* record R if and only if every supplied criterion matches R.
C1_IncludedIffMatches ==
    LoadsServed =>
        \A i \in DOMAIN LOADS : Included(LOADS[i]) <=> CriteriaMatch(LOADS[i], req.q)

\* C1 (amended): every returned item is a copy of a stored record that
\* matches every supplied criterion (a criterion that is blank after
\* trimming counts as absent); the result holds min(3, number of matching
\* records) items; and when at most 3 records match, a copy of every
\* matching record is returned.
C1_IncludedIffMatchesUpToThree ==
    LoadsServed =>
        /\ \A k \in DOMAIN resp.items :
              \E i \in MatchingRecords : IsCopyOf(resp.items[k], LOADS[i])
        /\ Len(resp.items) = Min(3, Cardinality(MatchingRecords))
        /\ Cardinality(MatchingRecords) <= 3 =>
              \A i \in MatchingRecords : Included(LOADS[i])

\* a search with all six criteria supplied that returns some records of a
\* four-record store and leaves others out
C1_Witness ==
    /\ LoadsServed
    /\ Len(LOADS) = 4
    /\ \A f \in DOMAIN req.q : Supplied(req.q[f])
    /\ resp.count = 2
    /\ \E i \in DOMAIN LOADS : ~Included(LOADS[i])

\* C2: _filter_loads returns at most 3 records, and the count GET
\* /api/v1/loads reports is the number of items it returns.
C2_AtMostThree ==
    LoadsServed => Len(resp.items) <= 3 /\ resp.count = Len(resp.items)

\* four stored records match the query and three are returned
C2_Witness ==
    /\ LoadsServed
    /\ Cardinality(MatchingRecords) = 4
    /\ resp.count = 3

\* the equipment type of x equals the requested one, both trimmed and
\* lower-cased, an absent request reading as the empty string
EquipmentMatch(x, q) == NormalizedEquipment(x) = Normalized(q.equipment_type)

SameRank(x, y, q) ==
    /\ EquipmentMatch(x, q) = EquipmentMatch(y, q)
    /\ PickupString(x) = PickupString(y)

WithoutRate(r) == [r EXCEPT !.loadboard_rate = None]

IsPrefix(a, b) == Len(a) <= Len(b) /\ SubSeq(b, 1, Len(a)) = a

----------------------------------------------------------------------------
(* Claims about the record store, the logs and the aggregation, under Spec *)

\* C4: no request changes the record store: after any sequence of load
\* searches, appends, metrics reads and carrier lookups LOADS is what it was
\* at startup, the rate coercion touching only the returned copies.
C4_StoreImmutable == [][LOADS' = LOADS]_vars

\* after an append, a search returned a copy whose rate was coerced to a
\* float while the stored record keeps its original rate
C4_Witness ==
    /\ LoadsServed
    /\ Len(completed.offers) + Len(completed.summaries) >= 1
    /\ \E k \in DOMAIN resp.items, i \in DOMAIN LOADS :
          /\ IsCopyOf(resp.items[k], LOADS[i])
          /\ resp.items[k].loadboard_rate.t = "float"
          /\ LOADS[i].loadboard_rate.t # "float"

CallIdOf(o) == Get(o, "call_id")

\* the offer entries appended so far under call id c
OffersOf(c) == {i \in DOMAIN completed.offers : CallIdOf(completed.offers[i]) = c}

\* the call identifiers with at least one offer entry
OfferCallIds == {CallIdOf(completed.offers[i]) : i \in DOMAIN completed.offers}

\* avg (a float num/den) times n equals total
AvgTimes(avg, n, total) == avg.num * n = total * avg.den

\* C6 (as stated): metrics() reports avg_rounds equal to the mean, over all
\* distinct call identifiers with at least one offer entry in the offers log,
\* of the number of entries of that call, so that avg_rounds times the number
\* of such calls is the total of offers logged; 0.0 when there are no calls.
C6_AvgOverAllCalls ==
    [][\A fs \in Faults :
          MetricsStep("none", fs) =>
             /\ AvgTimes(resp'.totals.avg_rounds, Cardinality(OfferCallIds),
                         resp'.totals.offers_logged)
             /\ OfferCallIds = {} => resp'.totals.avg_rounds = Float(0, 1)]_vars

\* the call identifiers that are not the empty string
NonEmptyCallIds == OfferCallIds \ {Str(<<>>)}

\* C6 (amended): when the offers log is read without failure, avg_rounds is
\* the mean, over the distinct non-empty call identifiers of the offers log,
\* of the number of entries of that call: avg_rounds times the number of such
\* calls is the number of offer entries with a non-empty call id (entries
\* with an empty call id count in offers_logged but not in avg_rounds); it is
\* 0.0 when no entry has a non-empty call id.
C6_AvgOverNonEmptyCalls ==
    [][\A fs \in Faults :
          MetricsStep("none", fs) =>
             /\ resp'.totals.offers_logged = Len(completed.offers)
             /\ AvgTimes(resp'.totals.avg_rounds, Cardinality(NonEmptyCallIds),
                         Cardinality(UNION {OffersOf(c) : c \in NonEmptyCallIds}))
             /\ NonEmptyCallIds = {} => resp'.totals.avg_rounds = Float(0, 1)]_vars

\* metrics read a log of two offers of one call: avg_rounds is 2.0
C6_Witness ==
    /\ req.op = "metrics" /\ req.fault_offers = "none"
    /\ resp.totals.offers_logged = 2
    /\ Len(completed.offers) = 2
    /\ Cardinality(NonEmptyCallIds) = 1
    /\ resp.totals.avg_rounds = Float(2, 1)

\* a summary entry has no value under field f: the field is unset or empty
HasNone(s, f) == Get(s, f) = None \/ Get(s, f) = Str(<<>>)

\* the category a summary entry counts under for field f, other the default
CategoryOf(s, f, other) == IF HasNone(s, f) THEN Str(<<other>>) ELSE Get(s, f)

\* the summary entries appended so far whose category for f is c
SummariesIn(f, other, c) ==
    {i \in DOMAIN completed.summaries : CategoryOf(completed.summaries[i], f, other) = c}

RECURSIVE SumCounts(_, _)
SumCounts(c, keys) ==
    IF keys = {} THEN 0
    ELSE LET k == CHOOSE x \in keys : TRUE IN c[k] + SumCounts(c, keys \ {k})

\* counts is exactly the count of the summary entries by category of field f
CountsByCategory(counts, f, other) ==
    /\ DOMAIN counts = {CategoryOf(completed.summaries[i], f, other) :
                          i \in DOMAIN completed.summaries}
    /\ \A c \in DOMAIN counts : counts[c] = Cardinality(SummariesIn(f, other, c))
    /\ SumCounts(counts, DOMAIN counts) = Len(completed.summaries)

\* C7: when the summary log is read without failure, metrics() counts every
\* summary entry once in outcomes (under its outcome, or "Other" when it has
\* none or an empty one) and once in sentiments (under its sentiment, or
\* "Neutral"), each map summing to the number of entries; totals.accepted,
\* rejected and not_eligible are the counts of "Accepted", "Rejected" and
\* "Not Eligible" (0 if absent); with no offers and one summary without
\* outcome and sentiment: avg_rounds 0.0, outcomes {"Other": 1}, sentiments
\* {"Neutral": 1}.
C7_SummaryCounts ==
    [][\A fo \in Faults :
          MetricsStep(fo, "none") =>
             /\ CountsByCategory(resp'.outcomes, "outcome", "Other")
             /\ CountsByCategory(resp'.sentiments, "sentiment", "Neutral")
             /\ resp'.totals.accepted =
                   Cardinality(SummariesIn("outcome", "Other", Str(<<"Accepted">>)))
             /\ resp'.totals.rejected =
                   Cardinality(SummariesIn("outcome", "Other", Str(<<"Rejected">>)))
             /\ resp'.totals.not_eligible =
                   Cardinality(SummariesIn("outcome", "Other", Str(<<"Not Eligible">>)))
             /\ (/\ completed.offers = <<>>
                 /\ Len(completed.summaries) = 1
                 /\ Get(completed.summaries[1], "outcome") = None
                 /\ Get(completed.summaries[1], "sentiment") = None)
                => /\ resp'.totals.avg_rounds = Float(0, 1)
                   /\ resp'.outcomes = [k \in {Str(<<"Other">>)} |-> 1]
                   /\ resp'.sentiments = [k \in {Str(<<"Neutral">>)} |-> 1]]_vars

\* metrics read two summaries, one accepted and one without outcome
C7_Witness ==
    /\ req.op = "metrics" /\ req.fault_summaries = "none"
    /\ Len(completed.summaries) = 2
    /\ resp.totals.accepted = 1
    /\ Str(<<"Other">>) \in DOMAIN resp.outcomes
    /\ resp.outcomes[Str(<<"Other">>)] = 1
    /\ resp.totals.calls = 2

\* C8 (as stated): only a missing log file is treated as an empty dataset;
\* any other failure while reading a log makes the request fail with 500.
C8_OtherFailuresAre500 ==
    [][\A fo \in Faults, fs \in Faults :
          (/\ MetricsStep(fo, fs)
           /\ \/ ReadOutcome(offers_log, fo) \in {"io", "parse"}
              \/ ReadOutcome(summary_log, fs) \in {"io", "parse"})
          => resp'.status = 500]_vars

\* C8 (amended): every failure while reading a log - a missing file, another
\* I/O error, a line that is not valid JSON - is swallowed: the request
\* answers 200, never 500, with the metrics of that log being empty (none of
\* its entries counted, not even those of the lines before the bad one),
\* while a log read without failure counts one entry per line.
C8_FailedReadIsEmpty ==
    [][\A fo \in Faults, fs \in Faults :
          MetricsStep(fo, fs) =>
             /\ resp'.status = 200
             /\ ReadOutcome(offers_log, fo) # "ok" =>
                   /\ resp'.totals.offers_logged = 0
                   /\ resp'.totals.avg_rounds = Float(0, 1)
             /\ ReadOutcome(offers_log, fo) = "ok" =>
                   resp'.totals.offers_logged = Len(SplitLines(offers_log.data))
             /\ ReadOutcome(summary_log, fs) # "ok" =>
                   /\ resp'.totals.calls = 0
                   /\ DOMAIN resp'.outcomes = {}
                   /\ DOMAIN resp'.sentiments = {}
                   /\ resp'.totals.accepted = 0
             /\ ReadOutcome(summary_log, fs) = "ok" =>
                   SumCounts(resp'.outcomes, DOMAIN resp'.outcomes) =
                      Len(SplitLines(summary_log.data))]_vars

\* the offers log holds a whole line and a torn one, the read of the summary
\* log, which holds an entry, met an I/O error, and metrics answered 200
\* with no offer and no call counted
C8_Witness ==
    /\ resp.kind = "metrics"
    /\ req.fault_offers = "none" /\ req.fault_summaries = "io"
    /\ ReadOutcome(offers_log, "none") = "parse"
    /\ Len(SplitLines(offers_log.data)) = 2
    /\ summary_log.exists /\ summary_log.data # <<>>
    /\ resp.status = 200
    /\ resp.totals.offers_logged = 0
    /\ resp.totals.calls = 0

\* the lines of file are the lines of the entries, one whole line each
WholeLines(file, entries) ==
    SplitLines(file.data) = [i \in DOMAIN entries |-> LogLine(entries[i])]

\* C9: in every interleaving of concurrent log_offer and call_summary
\* requests each log holds, as whole lines, exactly the entries of the
\* appends that completed, in the order they completed, and every step leaves
\* what a log held before in place at the front of the log.
C9_WholeLineAppends ==
    [][/\ WholeLines(offers_log', completed'.offers)
       /\ WholeLines(summary_log', completed'.summaries)
       /\ IsPrefix(offers_log.data, offers_log'.data)
       /\ IsPrefix(summary_log.data, summary_log'.data)]_vars

\* an append to the offers log is in flight, opened when the log was still
\* empty, and another append to the same log has completed meanwhile
C9_Witness ==
    /\ Len(completed.offers) = 1
    /\ \E w \in Workers :
          /\ workers[w].pc = "opened"
          /\ workers[w].log = "offers"
          /\ workers[w].openpos = 0
    /\ Len(offers_log.data) > 0

Keys(d) == {d.items[i].k : i \in DOMAIN d.items}

\* entry read has the keys of entry written and, key by key, its values
SameFields(read, written) ==
    /\ read.t = "dict"
    /\ Len(read.items) = Len(written.items)
    /\ Keys(read) = Keys(written)
    /\ \A k \in Keys(written) : Get(read, k[1]) = Get(written, k[1])

RoundTrip(file, entries, counted) ==
    LET read == ReadLog(file, "none")
    IN  /\ Len(read) = Len(entries)
        /\ counted = Len(entries)
        /\ \A i \in DOMAIN entries : SameFields(read[i], entries[i])

\* the number of summary entries metrics() counted
SummariesCounted(r) == SumCounts(r.outcomes, DOMAIN r.outcomes)

\* C10: when metrics() reads the logs without failure, every entry appended
\* by log_offer and call_summary is read back as one entry with the declared
\* fields and exactly the original values (None for the optional fields left
\* unset), and as many entries are read back, and counted, as were appended.
C10_RoundTrip ==
    [][MetricsStep("none", "none") =>
          /\ RoundTrip(offers_log, completed.offers, resp'.totals.offers_logged)
          /\ RoundTrip(summary_log, completed.summaries, SummariesCounted(resp'))]_vars

\* metrics read back an offer whose load id holds a newline, a quote and a
\* backslash, and a summary with a list of offers
C10_Witness ==
    /\ req.op = "metrics" /\ req.fault_offers = "none" /\ req.fault_summaries = "none"
    /\ resp.totals.offers_logged = 1
    /\ resp.totals.accepted = 1
    /\ Len(completed.offers) = 1 /\ Len(completed.summaries) = 1
    /\ "\n" \in Range(Get(completed.offers[1], "load_id").s)
    /\ Get(completed.summaries[1], "offer_history") # None

----------------------------------------------------------------------------
(* The claim about the eligibility verdict, under SpecCarrier *)

VerdictServed == req.op = "find_carrier" /\ resp.kind = "verdict"

\* the carrier record the lookup evaluated
CarrierOf(r) == choose_carrier(r.upstream.payload)

\* the reason of a verdict that is not eligible: the fragments that fire
ExpectedReason(c) ==
    LET n  == Get(c, "allowToOperate") = Str(<<"N">>)
        y  == Get(c, "outOfService") = Str(<<"Y">>)
        d  == Get(c, "outOfServiceDate")
        oy == IF d # None /\ d # Str(<<>>)
              THEN <<"outOfService=Y", " since ">> \o d.s
              ELSE <<"outOfService=Y">>
    IN  CASE n /\ y  -> <<"allowToOperate=N", "; ">> \o oy
          [] n /\ ~y -> <<"allowToOperate=N">>
          [] ~n /\ y -> oy
          [] OTHER   -> <<>>

\* C5: compute_verdict returns eligible with the fixed reason "Active:
\* allowed to operate and not out of service" exactly when allowToOperate is
\* not "N" and outOfService is not "Y" (so too for a record lacking both
\* keys); otherwise not eligible, the reason being "allowToOperate=N" first,
\* then "outOfService=Y" (with " since <date>" when outOfServiceDate holds a
\* non-empty date), joined by "; " when both fire.
C5_Verdict ==
    VerdictServed =>
        LET c == CarrierOf(req)
        IN  IF Get(c, "allowToOperate") # Str(<<"N">>) /\ Get(c, "outOfService") # Str(<<"Y">>)
            THEN /\ resp.eligible
                 /\ resp.reason = Str(<<"Active: allowed to operate and not out of service">>)
            ELSE /\ ~resp.eligible
                 /\ resp.reason = Str(ExpectedReason(c))

\* a carrier with allowToOperate "N", out of service since a date: both
\* fragments in the reason
C5_Witness ==
    /\ VerdictServed
    /\ ~resp.eligible
    /\ resp.reason = Str(<<"allowToOperate=N", "; ", "outOfService=Y", " since ", "2024-01-01">>)

====
